---- MODULE Spec2Model ----
(***************************************************************************)
(* A model of the Common Ground bot SDK: the webhook verifier              *)
(* (verifyWebhook, parseWebhook, webhookMiddleware) and the outbound       *)
(* request path of BotClient.                                              *)
(*                                                                         *)
(* Strings are sequences of one-character strings, so that a single        *)
(* character of a payload, a secret, a timestamp or a signature can be     *)
(* changed, and so that parseInt and the hex decoding of Buffer.from act   *)
(* on characters as they do in the program.                                *)
(***************************************************************************)
EXTENDS Integers, Sequences, FiniteSets, TLC

VARIABLES
    \* verifyWebhook / parseWebhook called on one request
    now,        \* the value Date.now() returns during the call
    orig,       \* the request before one character of it was changed
    options,    \* the VerifyWebhookOptions handed to verifyWebhook / parseWebhook
    pc,         \* "input", "verified", "parsed"
    vresult,    \* outcome of verifyWebhook(options)
    presult,    \* outcome of parseWebhook(options)
    \* the handler webhookMiddleware(secret) returns, on one request
    webhookSecret,  \* the secret the handler closes over
    req,            \* headers x-cg-signature, x-cg-timestamp and rawBody
    mpc,            \* "received", "handled"
    responses,      \* what the handler wrote with res.status(..).json(..)
    nextCalls,      \* how often the handler called next()
    \* one call of BotClient.request
    cpc,        \* "idle", "fetching", "reading", "done"
    timerArmed, \* the setTimeout of the call is pending
    aborted,    \* controller.abort() was called
    response,   \* status of the response fetch resolved with, and its body text
    failure,    \* what ended the round trip, for a call that failed before parsing
    coutcome    \* what request() returned or threw

wvars == <<now, orig, options, pc, vresult, presult>>
mvars == <<webhookSecret, req, mpc, responses, nextCalls>>
cvars == <<cpc, timerArmed, aborted, response, failure, coutcome>>
vars == <<wvars, mvars, cvars>>

(***************************************************************************)
(* Bounds of the input sets.                                               *)
(***************************************************************************)
MaxPayloadLen == 2
MaxSecretLen == 1
MaxSkew == 1

(***************************************************************************)
(* Characters.                                                             *)
(***************************************************************************)
Digits == <<"0", "1", "2", "3", "4", "5", "6", "7", "8", "9">>
HexLower == Digits \o <<"a", "b", "c", "d", "e", "f">>
HexUpper == Digits \o <<"A", "B", "C", "D", "E", "F">>

IndexOf(c, seq) ==
    IF \E i \in 1..Len(seq) : seq[i] = c
    THEN CHOOSE i \in 1..Len(seq) : seq[i] = c
    ELSE 0

IsDigit(c) == IndexOf(c, Digits) > 0
DigitVal(c) == IndexOf(c, Digits) - 1

\* The value of a hexadecimal digit, either case; -1 for any other character.
unhex(c) ==
    IF IndexOf(c, HexLower) > 0 THEN IndexOf(c, HexLower) - 1
    ELSE IF IndexOf(c, HexUpper) > 0 THEN IndexOf(c, HexUpper) - 1
    ELSE -1

\* Character codes (ASCII) of the characters the inputs are drawn from.
CharCode(c) ==
    CASE IsDigit(c) -> 48 + DigitVal(c)
      [] c = " " -> 32
      [] c = "+" -> 43
      [] c = "-" -> 45
      [] c = "." -> 46
      [] c = "=" -> 61
      [] c = "a" -> 97
      [] c = "b" -> 98
      [] c = "c" -> 99
      [] c = "k" -> 107
      [] c = "s" -> 115
      [] c = "x" -> 120
      [] c = "{" -> 123
      [] c = "}" -> 125
      [] OTHER -> 63

SubStr(s, from, to) == [i \in 1..(to - from + 1) |-> s[from + i - 1]]

startsWith(s, p) == Len(s) >= Len(p) /\ SubStr(s, 1, Len(p)) = p

\* String.prototype.slice(n) for 0 <= n.
slice(s, n) == IF n >= Len(s) THEN <<>> ELSE SubStr(s, n + 1, Len(s))

(***************************************************************************)
(* parseInt(string, 10): leading white space is skipped, one sign is       *)
(* taken, then the longest run of decimal digits; NaN when that run is     *)
(* empty.  Whatever follows the digits is ignored.                         *)
(***************************************************************************)
NaN == [nan |-> TRUE, val |-> 0]
Num(n) == [nan |-> FALSE, val |-> n]

RECURSIVE SkipSpaces(_, _)
SkipSpaces(s, i) ==
    IF i <= Len(s) /\ s[i] = " " THEN SkipSpaces(s, i + 1) ELSE i

RECURSIVE DigitRun(_, _, _)
\* <<value, count>> of the run of digits of s that starts at index i
DigitRun(s, i, acc) ==
    IF i <= Len(s) /\ IsDigit(s[i])
    THEN DigitRun(s, i + 1, <<acc[1] * 10 + DigitVal(s[i]), acc[2] + 1>>)
    ELSE acc

parseInt(s) ==
    LET i == SkipSpaces(s, 1)
        signed == i <= Len(s) /\ s[i] \in {"+", "-"}
        sign == IF signed /\ s[i] = "-" THEN -1 ELSE 1
        run == DigitRun(s, IF signed THEN i + 1 ELSE i, <<0, 0>>)
    IN  IF run[2] = 0 THEN NaN ELSE Num(sign * run[1])

(***************************************************************************)
(* Buffer.from(string, 'hex'): floor(length / 2) pairs of hex digits are   *)
(* decoded, either case; decoding stops at the first pair that holds a     *)
(* character that is no hex digit, and a trailing single digit is dropped. *)
(***************************************************************************)
BufferFromHex(s) ==
    LET n == Len(s) \div 2
        bad == {i \in 1..n : unhex(s[2 * i - 1]) < 0 \/ unhex(s[2 * i]) < 0}
        len == IF bad = {} THEN n
               ELSE (CHOOSE i \in bad : \A j \in bad : i <= j) - 1
    IN  [i \in 1..len |-> 16 * unhex(s[2 * i - 1]) + unhex(s[2 * i])]

\* Buffer.toString('hex') / digest('hex'): two lowercase digits per byte.
ToHex(bytes) ==
    [i \in 1..(2 * Len(bytes)) |->
        LET b == bytes[(i + 1) \div 2]
        IN  HexLower[(IF i % 2 = 1 THEN b \div 16 ELSE b % 16) + 1]]

(***************************************************************************)
(* createHmac('sha256', secret).update(data).digest().  SHA-256 is not     *)
(* computed: a keyed mixing function stands in for it.  It runs over the   *)
(* key, a separator no character code equals, and the data, so that it     *)
(* depends on every character of both, and it yields DigestBytes bytes:    *)
(* the four bytes of the final state, then bytes derived from it.  That it *)
(* has no collision on the input sets of the model is checked              *)
(* (HmacCollisionFree).                                                    *)
(***************************************************************************)
DigestBytes == 32

Codes(s) == [i \in 1..Len(s) |-> CharCode(s[i])]

RECURSIVE Absorb(_, _, _)
Absorb(h, codes, i) ==
    IF i > Len(codes) THEN h
    ELSE LET n == (h * 31 + codes[i] + 1) % 67108859
         IN  IF n >= 0 THEN Absorb(n, codes, i + 1) ELSE 0

hmacSha256(key, data) ==
    LET h == Absorb(5381, Codes(key) \o <<256>> \o Codes(data), 1)
    IN  [i \in 1..DigestBytes |->
            CASE i = 1 -> h % 256
              [] i = 2 -> (h \div 256) % 256
              [] i = 3 -> (h \div 65536) % 256
              [] i = 4 -> h \div 16777216
              [] OTHER -> ((h % 65521) * i + (h \div 251) + 7 * i) % 256]

(***************************************************************************)
(* verifyWebhook                                                           *)
(***************************************************************************)
MAX_TIMESTAMP_AGE_MS == 300000

Abs(x) == IF x < 0 THEN -x ELSE x

\* Math.round(age / 1000) for age >= 0
RoundSeconds(age) == (age + 500) \div 1000

Return == [kind |-> "return", error |-> "", message |-> "", age |-> 0]
Throw(cls, msg, age) == [kind |-> "throw", error |-> cls, message |-> msg, age |-> age]
NoResult == [kind |-> "none", error |-> "", message |-> "", age |-> 0]

Sha256Prefix == <<"s", "h", "a", "2", "5", "6", "=">>

\* the bound applied to now - messageTime, not to its absolute value
isExpired_Signed(nowv, messageTime) == nowv - messageTime > MAX_TIMESTAMP_AGE_MS

\* age > MAX_TIMESTAMP_AGE_MS, with age = Math.abs(now - messageTime)
isExpired(nowv, messageTime) == Abs(nowv - messageTime) > MAX_TIMESTAMP_AGE_MS

\* the prefix is never removed
signatureValue_Verbatim(signature) == signature

\* signature.startsWith('sha256=') ? signature.slice(7) : signature
signatureValue(signature) ==
    IF startsWith(signature, Sha256Prefix) THEN slice(signature, 7) ELSE signature

\* the payload is left out of what is signed
signatureData_NoPayload(timestamp, payload) == timestamp \o <<".">>

\* `${timestamp}.${payload}`
signatureData(timestamp, payload) == timestamp \o <<".">> \o payload

expectedSignature(opts) ==
    ToHex(hmacSha256(opts.secret, signatureData(opts.timestamp, opts.payload)))

\* crypto.timingSafeEqual: a RangeError when the byte lengths differ
timingSafeEqual(a, b) ==
    IF Len(a) # Len(b) THEN [threw |-> TRUE, equal |-> FALSE]
    ELSE [threw |-> FALSE, equal |-> (a = b)]

\* the try block of verifyWebhook: compare, and map what is thrown
compareSignatures(given, expected) ==
    LET cmp == timingSafeEqual(BufferFromHex(given), BufferFromHex(expected))
    IN  IF cmp.threw
        THEN Throw("WebhookVerificationError", "Invalid signature format", 0)
        ELSE IF ~cmp.equal
        THEN Throw("WebhookVerificationError", "Signature mismatch", 0)
        ELSE Return

verifyWebhook(opts, nowv) ==
    LET messageTime == parseInt(opts.timestamp)
    IN  IF messageTime.nan
        THEN Throw("WebhookVerificationError", "Invalid timestamp format", 0)
        ELSE IF isExpired(nowv, messageTime.val)
        THEN Throw("WebhookVerificationError", "Timestamp is too old",
                   RoundSeconds(Abs(nowv - messageTime.val)))
        ELSE compareSignatures(signatureValue(opts.signature), expectedSignature(opts))

(***************************************************************************)
(* JSON.parse, as a recogniser on the payload alphabet ("{", "}" and       *)
(* digits): the JSON texts over it are the integers without a leading zero *)
(* and the empty object.                                                   *)
(***************************************************************************)
IsJsonText(s) ==
    \/ s = <<"{", "}">>
    \/ /\ Len(s) >= 1
       /\ \A i \in 1..Len(s) : IsDigit(s[i])
       /\ (Len(s) > 1 => s[1] # "0")

\* JSON.parse runs before verifyWebhook
parseWebhook_ParseFirst(opts, nowv) ==
    IF ~IsJsonText(opts.payload)
    THEN [result |-> Throw("SyntaxError", "Unexpected token", 0), parsed |-> TRUE]
    ELSE LET v == verifyWebhook(opts, nowv)
         IN  [result |-> v, parsed |-> TRUE]

\* parseWebhook: verifyWebhook(options), then JSON.parse(options.payload).
\* `parsed` tells whether JSON.parse was called.
parseWebhook(opts, nowv) ==
    LET v == verifyWebhook(opts, nowv)
    IN  IF v.kind = "throw" THEN [result |-> v, parsed |-> FALSE]
        ELSE IF IsJsonText(opts.payload)
        THEN [result |-> Return, parsed |-> TRUE]
        ELSE [result |-> Throw("SyntaxError", "Unexpected token", 0), parsed |-> TRUE]

(***************************************************************************)
(* Inputs.                                                                 *)
(***************************************************************************)
RECURSIVE SeqsOfLen(_, _)
SeqsOfLen(S, k) ==
    IF k = 0 THEN {<<>>}
    ELSE {Append(s, c) : s \in SeqsOfLen(S, k - 1), c \in S}

\* the non-empty strings over S of length at most n
SeqsUpTo(S, n) == UNION {SeqsOfLen(S, k) : k \in 1..n}

PayloadChars == {"{", "}"}
SecretChars == {"k", "s"}

Payloads == SeqsUpTo(PayloadChars, MaxPayloadLen)
Secrets == SeqsUpTo(SecretChars, MaxSecretLen)

\* Date.now()
NowValues == {1000000}

RECURSIVE ToDecimal(_)
\* the decimal digits of n >= 0
ToDecimal(n) ==
    IF n < 10 THEN <<Digits[n + 1]>>
    ELSE Append(ToDecimal(n \div 10), Digits[(n % 10) + 1])

\* now - timestamp, at and around both ends of the freshness window
Offsets ==
    {0} \cup {s * (MAX_TIMESTAMP_AGE_MS + k) : s \in {-1, 1}, k \in (-MaxSkew)..MaxSkew}

\* the decimal integers at and around the window's ends, each also followed
\* by a character that is no digit; the integer equal to now also with a
\* fraction, a leading space and a sign; and strings with no leading integer
Timestamps(nowv) ==
    LET plain == {ToDecimal(nowv - d) : d \in Offsets}
        same == ToDecimal(nowv)
    IN  plain
        \cup {p \o <<"x">> : p \in plain}
        \cup {same \o <<".", "5">>, <<" ">> \o same, <<"+">> \o same}
        \cup {<<"a", "b", "c">>, <<>>, <<"x", "1">>, <<"-", "1">>}

\* a string that is in its entirety a base-10 integer: an optional sign and
\* one or more digits
IsBase10Integer(s) ==
    LET body == IF Len(s) >= 1 /\ s[1] \in {"+", "-"} THEN slice(s, 1) ELSE s
    IN  Len(body) >= 1 /\ \A i \in 1..Len(body) : IsDigit(body[i])

ToUpper(s) ==
    [i \in 1..Len(s) |->
        IF unhex(s[i]) >= 10 THEN HexUpper[unhex(s[i]) + 1] ELSE s[i]]

\* s with the character at position i replaced by c
Replace(s, i, c) == [j \in 1..Len(s) |-> IF j = i THEN c ELSE s[j]]

\* another hex digit than c, of another value
OtherHexDigit(c) == HexLower[((unhex(c) + 1) % 16) + 1]

\* the signatures a request is tried with, D being the digest it should carry
SignatureForms(D) ==
    LET W == Replace(D, 1, OtherHexDigit(D[1]))
    IN  { D,
          Sha256Prefix \o D,
          ToUpper(D),
          D \o <<"0">>,
          D \o <<"z", "z">>,
          D \o <<"0", "0">>,
          Sha256Prefix \o D \o <<"0">>,
          SubStr(D, 1, Len(D) - 1),
          SubStr(D, 1, Len(D) - 2),
          Replace(D, 2, "g"),
          W,
          W \o <<"z">>,
          <<>> }

Requests(nowv) ==
    UNION { LET base == [payload |-> p, secret |-> k, timestamp |-> t, signature |-> <<>>]
            IN  {[base EXCEPT !.signature = sig] : sig \in SignatureForms(expectedSignature(base))}
          : p \in Payloads, k \in Secrets, t \in Timestamps(nowv) }

(***************************************************************************)
(* The parts of the state a specification does not use stay as they are    *)
(* here.                                                                   *)
(***************************************************************************)
Undefined == [defined |-> FALSE, str |-> <<>>]
Str(s) == [defined |-> TRUE, str |-> s]

NoWebhook ==
    /\ orig = [payload |-> <<>>, secret |-> <<>>, timestamp |-> <<>>, signature |-> <<>>]
    /\ options = orig
    /\ pc = "unused"
    /\ vresult = NoResult
    /\ presult = [result |-> NoResult, parsed |-> FALSE]

NoMiddleware ==
    /\ webhookSecret = <<>>
    /\ req = [signature |-> Undefined, timestamp |-> Undefined, rawBody |-> Undefined]
    /\ mpc = "unused"
    /\ responses = <<>>
    /\ nextCalls = 0

NoCall == [kind |-> "none", code |-> "", statusCode |-> 0]

NoClient ==
    /\ cpc = "unused"
    /\ timerArmed = FALSE
    /\ aborted = FALSE
    /\ response = [status |-> 0, text |-> ""]
    /\ failure = "none"
    /\ coutcome = NoCall

(***************************************************************************)
(* The verifier called on one request: verifyWebhook, then parseWebhook on *)
(* the same request at the same clock value.                               *)
(***************************************************************************)
InitWebhook ==
    /\ now \in NowValues
    /\ options \in Requests(now)
    /\ orig = options
    /\ pc = "input"
    /\ vresult = NoResult
    /\ presult = [result |-> NoResult, parsed |-> FALSE]
    /\ NoMiddleware
    /\ NoClient

Verify ==
    /\ pc = "input"
    /\ vresult' = verifyWebhook(options, now)
    /\ pc' = "verified"
    /\ UNCHANGED <<now, orig, options, presult, mvars, cvars>>

Parse ==
    /\ pc = "verified"
    /\ presult' = parseWebhook(options, now)
    /\ pc' = "parsed"
    /\ UNCHANGED <<now, orig, options, vresult, mvars, cvars>>

NextWebhook == Verify \/ Parse

SpecWebhook == InitWebhook /\ [][NextWebhook]_vars

(***************************************************************************)
(* One character of an accepted request is changed, and verifyWebhook is   *)
(* called on the changed request at the same clock value.                  *)
(***************************************************************************)
SwapCase(c) ==
    IF IndexOf(c, HexLower) > 10 THEN HexUpper[IndexOf(c, HexLower)]
    ELSE IF IndexOf(c, HexUpper) > 10 THEN HexLower[IndexOf(c, HexUpper)]
    ELSE c

\* what a character of a signature is changed to: a hex digit of another
\* value, the same hex letter in the other case, a character that is no hex
\* digit
SignatureReplacements(c) ==
    {IF unhex(c) >= 0 THEN OtherHexDigit(c) ELSE "0", SwapCase(c), "g"} \ {c}

SingleCharChanges(r) ==
    {[r EXCEPT !.payload = Replace(@, i, c)] :
        i \in 1..Len(r.payload), c \in PayloadChars \ {"{"}}
    \cup {[r EXCEPT !.payload = Replace(@, i, c)] :
        i \in 1..Len(r.payload), c \in PayloadChars \ {"}"}}
    \cup {[r EXCEPT !.secret = Replace(@, i, c)] :
        i \in 1..Len(r.secret), c \in SecretChars \ {"k"}}
    \cup {[r EXCEPT !.secret = Replace(@, i, c)] :
        i \in 1..Len(r.secret), c \in SecretChars \ {"s"}}
    \cup UNION {{[r EXCEPT !.signature = Replace(@, i, c)] :
                    c \in SignatureReplacements(r.signature[i])} :
                i \in 1..Len(r.signature)}

\* the accepted requests whose timestamp is the clock value
Originals(nowv) ==
    {r \in Requests(nowv) :
        r.timestamp = ToDecimal(nowv) /\ verifyWebhook(r, nowv) = Return}

InitTamper ==
    /\ now \in NowValues
    /\ orig \in Originals(now)
    /\ options \in SingleCharChanges(orig) \ {orig}
    /\ pc = "input"
    /\ vresult = NoResult
    /\ presult = [result |-> NoResult, parsed |-> FALSE]
    /\ NoMiddleware
    /\ NoClient

SpecTamper == InitTamper /\ [][Verify]_vars

(***************************************************************************)
(* Vocabulary of the claims.                                               *)
(***************************************************************************)
Verified == pc \in {"verified", "parsed"}

\* the value of a string that is a base-10 integer
IntegerValue(s) ==
    IF s[1] = "-" THEN -(DigitRun(s, 2, <<0, 0>>)[1])
    ELSE IF s[1] = "+" THEN DigitRun(s, 2, <<0, 0>>)[1]
    ELSE DigitRun(s, 1, <<0, 0>>)[1]

\* the timestamp is a base-10 integer, and this far from the clock
NumericTimestamp == IsBase10Integer(options.timestamp)
Skew == Abs(now - IntegerValue(options.timestamp))
FreshNumeric == NumericTimestamp /\ Skew <= MAX_TIMESTAMP_AGE_MS

\* lowercase hex of HMAC-SHA256(secret, timestamp + "." + payload)
Digest ==
    ToHex(hmacSha256(options.secret, options.timestamp \o <<".">> \o options.payload))

CorrectlySigned == options.signature \in {Digest, Sha256Prefix \o Digest}

\* the signature without the optional "sha256=" prefix
Unprefixed(sig) ==
    IF Len(sig) >= 7 /\ SubStr(sig, 1, 7) = Sha256Prefix THEN SubStr(sig, 8, Len(sig)) ELSE sig

\* odd length, a character that is no hex digit, or not 32 bytes long
MalformedSignature(sig) ==
    LET v == Unprefixed(sig)
    IN  \/ Len(v) % 2 = 1
        \/ \E i \in 1..Len(v) : unhex(v[i]) < 0
        \/ Len(v) # 2 * DigestBytes

\* the bytes a string of hex digits of even length stands for
HexBytes(v) == [i \in 1..(Len(v) \div 2) |-> 16 * unhex(v[2 * i - 1]) + unhex(v[2 * i])]

\* the only JSON text over the payload alphabet
JsonPayload == options.payload = <<"{", "}">>

Failed(msg) == Throw("WebhookVerificationError", msg, 0)

TimestampExpired(r) ==
    /\ r.kind = "throw"
    /\ r.error = "WebhookVerificationError"
    /\ r.message = "Timestamp is too old"

\* the keyed hash has no collision on the inputs of the model
HmacCollisionFree ==
    LET In == {<<k, signatureData(t, p)>> :
                   k \in Secrets, t \in Timestamps(now), p \in Payloads}
    IN  \A a \in In : \A b \in In :
            a # b => hmacSha256(a[1], a[2]) # hmacSha256(b[1], b[2])

(***************************************************************************)
(* C1: a request whose timestamp is a base-10 integer within 300000 ms of  *)
(* the clock and whose signature is the lowercase hex HMAC-SHA256 of       *)
(* timestamp + "." + payload is accepted, with and without the "sha256="   *)
(* prefix.                                                                 *)
(***************************************************************************)
C1_CorrectSignatureAccepted ==
    (Verified /\ FreshNumeric /\ CorrectlySigned) => vresult = Return

C1_Witness ==
    /\ Verified
    /\ FreshNumeric
    /\ options.signature = Sha256Prefix \o Digest
    /\ vresult = Return

(***************************************************************************)
(* C3: with a fresh numeric timestamp, a signature that after the prefix   *)
(* has odd length, holds a character that is no hex digit, or is not 32    *)
(* bytes long fails with 'Invalid signature format'.                       *)
(***************************************************************************)
C3_MalformedSignatureRejected ==
    (Verified /\ FreshNumeric /\ MalformedSignature(options.signature))
        => vresult = Failed("Invalid signature format")

(***************************************************************************)
(* C4: a timestamp that is not in its entirety a base-10 integer fails     *)
(* with 'Invalid timestamp format', whatever the other inputs are.         *)
(***************************************************************************)
C4_NonIntegerTimestampRejected ==
    (Verified /\ ~NumericTimestamp) => vresult = Failed("Invalid timestamp format")

(***************************************************************************)
(* C5: a correctly signed request is accepted when |now - timestamp| is at *)
(* most 300000 ms, exactly 300000 included, and fails as expired when it   *)
(* is 300001 ms or more, for a timestamp in the past and in the future.    *)
(***************************************************************************)
C5_FreshnessBoundary ==
    (Verified /\ NumericTimestamp /\ CorrectlySigned) =>
        /\ (Skew <= MAX_TIMESTAMP_AGE_MS => vresult = Return)
        /\ (Skew >= MAX_TIMESTAMP_AGE_MS + 1 => TimestampExpired(vresult))

C5_Witness ==
    /\ Verified
    /\ NumericTimestamp
    /\ CorrectlySigned
    /\ IntegerValue(options.timestamp) - now = MAX_TIMESTAMP_AGE_MS
    /\ vresult = Return

(***************************************************************************)
(* C6, as stated: parseWebhook returns a deserialized event exactly when   *)
(* verifyWebhook succeeds on the same input at the same clock value, and   *)
(* when verifyWebhook fails parseWebhook fails with the same reason and    *)
(* does not reach the deserialization.                                     *)
(***************************************************************************)
C6_ParseIffVerify ==
    pc = "parsed" =>
        /\ (presult.result.kind = "return") <=> (vresult.kind = "return")
        /\ vresult.kind = "throw" => (presult.result = vresult /\ ~presult.parsed)

(***************************************************************************)
(* C6, amended: parseWebhook returns a deserialized event exactly when     *)
(* verifyWebhook succeeds and the payload is a JSON text; when             *)
(* verifyWebhook succeeds on a payload that is no JSON text, parseWebhook  *)
(* fails with the SyntaxError of JSON.parse; when verifyWebhook fails,     *)
(* parseWebhook fails with the same reason and does not reach the          *)
(* deserialization.                                                        *)
(***************************************************************************)
C6_ParseIffVerifyAndJson ==
    pc = "parsed" =>
        /\ (presult.result.kind = "return")
               <=> (vresult.kind = "return" /\ JsonPayload)
        /\ (vresult.kind = "return" /\ ~JsonPayload)
               => (presult.result.kind = "throw" /\ presult.result.error = "SyntaxError")
        /\ vresult.kind = "throw" => (presult.result = vresult /\ ~presult.parsed)

C6_Witness ==
    /\ pc = "parsed"
    /\ vresult.kind = "throw"
    /\ vresult.message = "Signature mismatch"
    /\ JsonPayload
    /\ presult.result = vresult
    /\ ~presult.parsed

(***************************************************************************)
(* C9: a failing call reports the first reason that applies, in the order  *)
(* malformed timestamp, timestamp expired, malformed signature, signature  *)
(* mismatch; a call to which none applies succeeds.                        *)
(***************************************************************************)
C9_FirstApplicableReason ==
    Verified =>
        IF ~NumericTimestamp
        THEN vresult = Failed("Invalid timestamp format")
        ELSE IF Skew > MAX_TIMESTAMP_AGE_MS
        THEN TimestampExpired(vresult)
        ELSE IF MalformedSignature(options.signature)
        THEN vresult = Failed("Invalid signature format")
        ELSE IF HexBytes(Unprefixed(options.signature)) # HexBytes(Digest)
        THEN vresult = Failed("Signature mismatch")
        ELSE vresult = Return

\* C9 with a timestamp that is an integer: a fresh timestamp and a malformed
\* signature report malformed signature, not mismatch
C9_MalformedNotMismatch ==
    (Verified /\ FreshNumeric /\ MalformedSignature(options.signature))
        => vresult # Failed("Signature mismatch")

(***************************************************************************)
(* C2, as stated: after a single character of the payload, the signature   *)
(* or the secret of an accepted request is changed, verifyWebhook fails    *)
(* with 'Signature mismatch'.                                              *)
(***************************************************************************)
C2_AnyChangeIsMismatch ==
    Verified => vresult = Failed("Signature mismatch")

(***************************************************************************)
(* C2, amended: a changed payload or secret fails with 'Signature          *)
(* mismatch'.  A changed signature fails with 'Signature mismatch' when it *)
(* still decodes to 32 bytes and they differ from the digest, fails with   *)
(* 'Invalid signature format' when it no longer decodes to 32 bytes, and   *)
(* is accepted when it decodes to the 32 bytes of the digest (a hex letter *)
(* changed in case only, or a change after the 64th digit).                *)
(***************************************************************************)
\* the number of leading pairs of hex digits of v
RECURSIVE LeadingHexPairs(_, _)
LeadingHexPairs(v, n) ==
    IF 2 * n + 2 <= Len(v) /\ unhex(v[2 * n + 1]) >= 0 /\ unhex(v[2 * n + 2]) >= 0
    THEN LeadingHexPairs(v, n + 1)
    ELSE n

C2_ChangeNeverForges ==
    Verified =>
        IF options.signature = orig.signature
        THEN vresult = Failed("Signature mismatch")
        ELSE LET v == Unprefixed(options.signature)
                 n == LeadingHexPairs(v, 0)
             IN  IF n # DigestBytes
                 THEN vresult = Failed("Invalid signature format")
                 ELSE IF HexBytes(SubStr(v, 1, 2 * n)) # HexBytes(Digest)
                 THEN vresult = Failed("Signature mismatch")
                 ELSE vresult = Return

C2_Witness ==
    /\ Verified
    /\ options.payload # orig.payload
    /\ vresult = Failed("Signature mismatch")

C2_WitnessCase ==
    /\ Verified
    /\ options.signature # orig.signature
    /\ vresult = Return

(***************************************************************************)
(* webhookMiddleware: the handler (req, res, next) it returns.             *)
(*                                                                         *)
(* next() is the rest of the request pipeline, called inside the try       *)
(* block: it returns, or it throws what the downstream stage throws        *)
(* synchronously.                                                          *)
(***************************************************************************)
Falsy(v) == ~v.defined \/ v.str = <<>>

NextOutcomes == {"returns", "throws WebhookVerificationError", "throws Error"}

Response(status, error, message) ==
    [status |-> status, error |-> error, message |-> message]

\* the catch block of the handler
handlerCatch(errorClass, message) ==
    IF errorClass = "WebhookVerificationError"
    THEN Response(401, "INVALID_SIGNATURE", message)
    ELSE Response(500, "VERIFICATION_ERROR", "Webhook verification failed")

\* what one call of the handler writes and how often it calls next()
webhookHandler(request, secret, nowv, nextOutcome) ==
    IF Falsy(request.signature) \/ Falsy(request.timestamp)
    THEN [responses |-> <<Response(401, "MISSING_HEADERS",
                                   "Missing X-CG-Signature or X-CG-Timestamp headers")>>,
          nextCalls |-> 0]
    ELSE IF Falsy(request.rawBody)
    THEN [responses |-> <<Response(500, "MISSING_RAW_BODY",
                                   "Raw body not available. Configure body-parser with verify option.")>>,
          nextCalls |-> 0]
    ELSE LET v == verifyWebhook([payload |-> request.rawBody.str,
                                 signature |-> request.signature.str,
                                 timestamp |-> request.timestamp.str,
                                 secret |-> secret], nowv)
         IN  IF v.kind = "throw"
             THEN [responses |-> <<handlerCatch(v.error, v.message)>>, nextCalls |-> 0]
             ELSE IF nextOutcome = "returns"
             THEN [responses |-> <<>>, nextCalls |-> 1]
             ELSE IF nextOutcome = "throws WebhookVerificationError"
             THEN [responses |-> <<handlerCatch("WebhookVerificationError", "downstream")>>,
                   nextCalls |-> 1]
             ELSE [responses |-> <<handlerCatch("Error", "downstream")>>, nextCalls |-> 1]

\* the requests the handler is tried on: each header and the raw body
\* absent, empty or present; the signature right, prefixed or wrong
MiddlewareRequests(secret, nowv) ==
    UNION { LET D == expectedSignature([payload |-> b.str, secret |-> secret,
                                        timestamp |-> t.str, signature |-> <<>>])
            IN  {[signature |-> g, timestamp |-> t, rawBody |-> b] :
                    g \in {Undefined, Str(<<>>), Str(D), Str(Sha256Prefix \o D),
                           Str(Replace(D, 1, OtherHexDigit(D[1]))), Str(<<"z", "z">>)}}
          : t \in {Undefined, Str(<<>>), Str(<<"a", "b", "c">>), Str(ToDecimal(nowv)),
                   Str(ToDecimal(nowv - MAX_TIMESTAMP_AGE_MS - 1))},
            b \in {Undefined, Str(<<>>)} \cup {Str(p) : p \in Payloads} }

InitMiddleware ==
    /\ now \in NowValues
    /\ webhookSecret \in Secrets
    /\ req \in MiddlewareRequests(webhookSecret, now)
    /\ mpc = "received"
    /\ responses = <<>>
    /\ nextCalls = 0
    /\ NoWebhook
    /\ NoClient

Handle ==
    /\ mpc = "received"
    /\ \E nextOutcome \in NextOutcomes :
          LET h == webhookHandler(req, webhookSecret, now, nextOutcome)
          IN  /\ responses' = h.responses
              /\ nextCalls' = h.nextCalls
    /\ mpc' = "handled"
    /\ UNCHANGED <<webhookSecret, req, wvars, cvars>>

SpecMiddleware == InitMiddleware /\ [][Handle]_vars

(***************************************************************************)
(* C7: the handler maps a request to exactly one outcome, tested in this   *)
(* order: a header missing -> 401 MISSING_HEADERS; the raw body missing -> *)
(* 500 MISSING_RAW_BODY; verifyWebhook throws a WebhookVerificationError   *)
(* -> 401 INVALID_SIGNATURE; any other error -> 500 VERIFICATION_ERROR;    *)
(* else next() is called and no response is written.  next() is called in  *)
(* no failing case.  (A header or body that is the empty string counts as  *)
(* missing, as in the handler's tests.)                                    *)
(***************************************************************************)
VerifiedRequest ==
    verifyWebhook([payload |-> req.rawBody.str, signature |-> req.signature.str,
                   timestamp |-> req.timestamp.str, secret |-> webhookSecret], now)

Wrote(status, error) ==
    /\ Len(responses) = 1
    /\ responses[1].status = status
    /\ responses[1].error = error

C7_HandlerOutcome ==
    mpc = "handled" =>
        IF Falsy(req.signature) \/ Falsy(req.timestamp)
        THEN Wrote(401, "MISSING_HEADERS") /\ nextCalls = 0
        ELSE IF Falsy(req.rawBody)
        THEN Wrote(500, "MISSING_RAW_BODY") /\ nextCalls = 0
        ELSE IF VerifiedRequest.kind = "throw"
                /\ VerifiedRequest.error = "WebhookVerificationError"
        THEN Wrote(401, "INVALID_SIGNATURE") /\ nextCalls = 0
        ELSE IF VerifiedRequest.kind = "throw"
        THEN Wrote(500, "VERIFICATION_ERROR") /\ nextCalls = 0
        ELSE nextCalls = 1 /\ responses = <<>>

\* the part of C7 about the requests that fail: their response, and no next()
C7_FailingRequests ==
    (mpc = "handled" /\ nextCalls = 0) =>
        \/ Wrote(401, "MISSING_HEADERS") /\ (Falsy(req.signature) \/ Falsy(req.timestamp))
        \/ Wrote(500, "MISSING_RAW_BODY") /\ Falsy(req.rawBody)
        \/ Wrote(401, "INVALID_SIGNATURE") /\ VerifiedRequest.kind = "throw"

(***************************************************************************)
(* C11: for every request the handler has handled, exactly one of two      *)
(* things has happened: next() was called once, or the handler wrote one   *)
(* response; never both and never neither.  After next() has been called   *)
(* no response is written, also when the downstream stage throws           *)
(* synchronously out of next().                                            *)
(***************************************************************************)
C11_NextXorResponse ==
    mpc = "handled" =>
        \/ nextCalls = 1 /\ Len(responses) = 0
        \/ nextCalls = 0 /\ Len(responses) = 1

\* the part of C11 that does not depend on what next() does: never neither,
\* never more than one call of next() and never more than one response
C11_AtLeastOneAtMostOnce ==
    mpc = "handled" =>
        /\ nextCalls + Len(responses) >= 1
        /\ nextCalls <= 1
        /\ Len(responses) <= 1

\* a verified request whose downstream stage threw: next() and a response
C11_BothHappened ==
    mpc = "handled" /\ nextCalls = 1 /\ Len(responses) = 1

(***************************************************************************)
(* BotClient.request: one POST, bounded by a timer that aborts it.         *)
(***************************************************************************)
Statuses == {200, 201, 204, 400, 404, 500}

\* response.ok
Ok(status) == status >= 200 /\ status <= 299

Absent == "(absent)"

JsonValue(type, error, status, message) ==
    [ok |-> TRUE, type |-> type, error |-> error, status |-> status, message |-> message]

NotJson == [ok |-> FALSE, type |-> "", error |-> Absent, status |-> Absent, message |-> Absent]

\* the response bodies the server is taken to send
BodyTexts ==
    { "{\"message\":{\"id\":\"m1\"}}",
      "{\"error\":\"RATE_LIMITED\",\"message\":\"slow down\"}",
      "{\"error\":\"NOT_FOUND\"}",
      "{\"status\":\"ERROR\",\"message\":\"failed\"}",
      "{\"status\":\"OK\",\"error\":\"\"}",
      "null",
      "42",
      "<html>Bad Gateway</html>",
      "" }

\* JSON.parse on those bodies: the parsed value with its top-level error,
\* status and message fields, or a SyntaxError
JSONParse(text) ==
    CASE text = "{\"message\":{\"id\":\"m1\"}}" ->
             JsonValue("object", Absent, Absent, "[object Object]")
      [] text = "{\"error\":\"RATE_LIMITED\",\"message\":\"slow down\"}" ->
             JsonValue("object", "RATE_LIMITED", Absent, "slow down")
      [] text = "{\"error\":\"NOT_FOUND\"}" ->
             JsonValue("object", "NOT_FOUND", Absent, Absent)
      [] text = "{\"status\":\"ERROR\",\"message\":\"failed\"}" ->
             JsonValue("object", Absent, "ERROR", "failed")
      [] text = "{\"status\":\"OK\",\"error\":\"\"}" ->
             JsonValue("object", "", "OK", Absent)
      [] text = "null" -> JsonValue("null", Absent, Absent, Absent)
      [] text = "42" -> JsonValue("number", Absent, Absent, Absent)
      [] OTHER -> NotJson

\* x || fallback on a string field
OrElse(x, fallback) == IF x = Absent \/ x = "" THEN fallback ELSE x

Returned == [kind |-> "return", code |-> "", message |-> "", statusCode |-> 0]
Thrown(cls, code, message, statusCode) ==
    [kind |-> "throw", class |-> cls, code |-> code, message |-> message,
     statusCode |-> statusCode]

BotApiError(code, message, statusCode) ==
    [kind |-> "throw", code |-> code, message |-> message, statusCode |-> statusCode]

\* the catch block of request: what the caller sees for what the try block threw
requestCatch(err) ==
    IF err.class = "BotApiError"
    THEN BotApiError(err.code, err.message, err.statusCode)
    ELSE IF err.class = "NonError"
    THEN BotApiError("UNKNOWN_ERROR", "An unknown error occurred", 0)
    ELSE IF err.class = "AbortError"
    THEN BotApiError("TIMEOUT", "Request timed out after ${this.timeout}ms", 408)
    ELSE BotApiError("NETWORK_ERROR", err.message, 0)

\* the try block of request from JSON.parse(responseText) on: what it returns
\* or throws.  Reading a property of null throws a TypeError.
handleResponse(status, text) ==
    LET data == JSONParse(text)
        nullRead == Thrown("TypeError", "", "Cannot read properties of null", 0)
    IN  IF ~data.ok
        THEN Thrown("BotApiError", "INVALID_RESPONSE",
                    "Invalid JSON response: ${responseText}", status)
        ELSE IF ~Ok(status)
        THEN IF data.type = "null" THEN nullRead
             ELSE Thrown("BotApiError", OrElse(data.error, "UNKNOWN_ERROR"),
                         OrElse(data.message, "Request failed with status ${response.status}"),
                         status)
        ELSE IF data.type = "null" THEN nullRead
        ELSE IF data.status = "ERROR" \/ (data.error # Absent /\ data.error # "")
        THEN Thrown("BotApiError", OrElse(data.error, "UNKNOWN_ERROR"),
                    OrElse(data.message, "Request failed"), status)
        ELSE Returned

\* what request gives its caller once the body text is there
requestResult(status, text) ==
    LET r == handleResponse(status, text)
    IN  IF r.kind = "throw" THEN requestCatch(r)
        ELSE [kind |-> "return", code |-> "", message |-> "", statusCode |-> status]

InitClient ==
    /\ cpc = "idle"
    /\ timerArmed = FALSE
    /\ aborted = FALSE
    /\ response = [status |-> 0, text |-> ""]
    /\ failure = "none"
    /\ coutcome = NoCall
    /\ now \in NowValues
    /\ NoWebhook
    /\ NoMiddleware

\* new AbortController(); setTimeout(() => controller.abort(), this.timeout); fetch(..)
StartRequest ==
    /\ cpc = "idle"
    /\ cpc' = "fetching"
    /\ timerArmed' = TRUE
    /\ UNCHANGED <<aborted, response, failure, coutcome, wvars, mvars>>

\* the timer fires: controller.abort()
TimerFires ==
    /\ timerArmed
    /\ timerArmed' = FALSE
    /\ aborted' = TRUE
    /\ UNCHANGED <<cpc, response, failure, coutcome, wvars, mvars>>

\* fetch resolves with the response's status line and headers: clearTimeout
FetchResolves ==
    /\ cpc = "fetching"
    /\ ~aborted
    /\ \E st \in Statuses, text \in BodyTexts : response' = [status |-> st, text |-> text]
    /\ timerArmed' = FALSE
    /\ cpc' = "reading"
    /\ UNCHANGED <<aborted, failure, coutcome, wvars, mvars>>

\* fetch rejects (no connection, DNS, TLS): catch, clearTimeout
FetchRejects ==
    /\ cpc = "fetching"
    /\ ~aborted
    /\ failure' = "fetch rejected"
    /\ coutcome' = requestCatch(Thrown("TypeError", "", "fetch failed", 0))
    /\ timerArmed' = FALSE
    /\ cpc' = "done"
    /\ UNCHANGED <<aborted, response, wvars, mvars>>

\* the aborted signal rejects what the call awaits with an AbortError
AbortRejects ==
    /\ aborted
    /\ cpc \in {"fetching", "reading"}
    /\ failure' = "aborted"
    /\ coutcome' = requestCatch(Thrown("AbortError", "", "This operation was aborted", 0))
    /\ timerArmed' = FALSE
    /\ cpc' = "done"
    /\ UNCHANGED <<aborted, response, wvars, mvars>>

\* response.text() resolves: parse, classify, return or throw
BodyRead ==
    /\ cpc = "reading"
    /\ ~aborted
    /\ coutcome' = requestResult(response.status, response.text)
    /\ cpc' = "done"
    /\ UNCHANGED <<timerArmed, aborted, response, failure, wvars, mvars>>

\* response.text() rejects (the connection breaks while the body is read)
BodyReadFails ==
    /\ cpc = "reading"
    /\ ~aborted
    /\ failure' = "body read failed"
    /\ coutcome' = requestCatch(Thrown("TypeError", "", "terminated", 0))
    /\ timerArmed' = FALSE
    /\ cpc' = "done"
    /\ UNCHANGED <<aborted, response, wvars, mvars>>

NextClient ==
    \/ StartRequest
    \/ TimerFires
    \/ FetchResolves
    \/ FetchRejects
    \/ AbortRejects
    \/ BodyRead
    \/ BodyReadFails

SpecClient == InitClient /\ [][NextClient]_vars

(***************************************************************************)
(* C8: sendMessage returns only for a 2xx response whose body is JSON and  *)
(* carries no error; every other outcome is a BotApiError of its own       *)
(* class: NETWORK_ERROR (0) for a rejected fetch, TIMEOUT (408) for the    *)
(* abort by the timer, the API's code with the response status for a       *)
(* non-2xx response, the body's code for an error in a 2xx body,           *)
(* INVALID_RESPONSE for a body that is not JSON; and no failure carries    *)
(* the code of another class.                                              *)
(***************************************************************************)
BodyIsJson == JSONParse(response.text).ok
BodyError == JSONParse(response.text).error
InBodyError ==
    JSONParse(response.text).status = "ERROR" \/ (BodyError # Absent /\ BodyError # "")

C8_FailureClasses ==
    cpc = "done" =>
        CASE failure = "aborted" ->
                 coutcome.kind = "throw" /\ coutcome.code = "TIMEOUT"
                 /\ coutcome.statusCode = 408
          [] failure \in {"fetch rejected", "body read failed"} ->
                 coutcome.kind = "throw" /\ coutcome.code = "NETWORK_ERROR"
                 /\ coutcome.statusCode = 0
          [] OTHER ->
                 IF ~BodyIsJson
                 THEN coutcome.kind = "throw" /\ coutcome.code = "INVALID_RESPONSE"
                 ELSE IF ~Ok(response.status) \/ InBodyError
                 THEN /\ coutcome.kind = "throw"
                      /\ coutcome.code = OrElse(BodyError, "UNKNOWN_ERROR")
                      /\ coutcome.statusCode = response.status
                 ELSE coutcome.kind = "return"

\* the part of C8 about what is returned: only a 2xx JSON body without error
C8_ReturnsOnlySuccess ==
    (cpc = "done" /\ coutcome.kind = "return") =>
        (failure = "none" /\ Ok(response.status) /\ BodyIsJson /\ ~InBodyError)

(***************************************************************************)
(* C10: while the call has not produced its result (fetch pending or body  *)
(* being read) and the timer has not fired, the timer is armed; when it    *)
(* fires the call fails with TIMEOUT (408); in every terminal state the    *)
(* timer is cleared.                                                       *)
(***************************************************************************)
C10_TimerBoundsRoundTrip ==
    /\ (cpc \in {"fetching", "reading"} /\ ~aborted) => timerArmed
    /\ (cpc = "done" /\ aborted) => (coutcome.code = "TIMEOUT" /\ coutcome.statusCode = 408)
    /\ cpc = "done" => ~timerArmed

\* the part of C10 about the terminal states and the abort
C10_TimerClearedWhenDone ==
    /\ (cpc = "done" /\ aborted) => (coutcome.code = "TIMEOUT" /\ coutcome.statusCode = 408)
    /\ cpc = "done" => ~timerArmed
    /\ cpc = "fetching" /\ ~aborted => timerArmed

====
